---- MODULE Spec2Model ----
(***************************************************************************)
(* A model of unet_2D/unet2DModel.py: the Unet2DModel class.               *)
(*                                                                         *)
(* n-dimensional arrays are functions over 0-based index ranges, nested    *)
(* one level per axis (a[x][y][ch]), as numpy indexes them.  The instance  *)
(* fields keep the names they have in the source.                          *)
(***************************************************************************)
EXTENDS Integers, Sequences, FiniteSets, TLC

\* ---------------------------------------------------------------- bounds

\* The longest class table the constructor is given.
MaxClasses == 2

\* Probabilities of a prediction are drawn from the levels 0..MaxProb.
MaxProb == 1

\* Validation losses of an epoch are drawn from the levels 0..MaxLoss.
MaxLoss == 1

\* fit_model is asked for 0..MaxEpochs epochs; early stopping ends a call
\* before its last epoch only from patience + 2 = 7 epochs on.
MaxEpochs == 7

\* The number of fit_model calls on the instance.
MaxCalls == 2

\* Voxels of an input volume are drawn from 0..MaxVoxel.
MaxVoxel == 1

\* The most files a directory of images holds.
MaxFiles == 2

\* The values a channel of a colour takes: the two ends of the uint8 range.
ChannelValues == {0, 255}

\* ------------------------------------------------------------- the state

VARIABLES
    \* fields of the instance, set by __init__
    IMG_SIZE, IMG_CHANNELS, CLASSES, ones,
    \* the class codec: the argument and the result of the last call
    op, mask, labels, prediction, pred_mask,
    \* the model wrapper: self.model, the file at MODEL_PATH, self.epochs_measured
    model, checkpoint, epochs_measured,
    \* a running fit_model call: its position, its argument, the epochs it has
    \* completed, the callbacks' fields and the network's stop_training flag
    pc, epochs, epoch, es_wait, es_best, ck_best, stop_training,
    \* history: the fit_model calls made, the epochs trained over all calls, the
    \* epochs trained before the running call, and the lowest validation
    \* IoU-loss measured over all epochs and over the running call's epochs
    calls, epochs_trained, call_start, all_min_iou, call_min_iou,
    \* the dataset loader: the constructor's flag, the files of the two
    \* directories in the order os.walk lists them, the dataset arrays of the
    \* instance (<<>>: no such attribute yet), and the last loader call with
    \* the exception it raised ("none": it returned)
    IS_TEST_DATA_LABELED, train_dir, test_dir,
    train_images, train_masks, test_images, test_masks,
    last_load, loader_error,
    \* a predict_volume call: its position, its argument, its locals
    \* original_channel_nr, img (after line 260) and resized_data, whether the
    \* normalisation divided by zero, and the exception that ended the call
    vol_pc, volume, original_channel_nr, img, resized_data, div_by_zero, vol_error

constructor_vars == <<IMG_SIZE, IMG_CHANNELS, CLASSES, ones>>
codec_vars == <<op, mask, labels, prediction, pred_mask>>
wrapper_vars == <<model, checkpoint, epochs_measured>>
fit_vars == <<pc, epochs, epoch, es_wait, es_best, ck_best, stop_training>>
history_vars == <<calls, epochs_trained, call_start, all_min_iou, call_min_iou>>
disk_vars == <<IS_TEST_DATA_LABELED, train_dir, test_dir>>
dataset_vars == <<train_images, train_masks, test_images, test_masks>>
loader_vars == <<disk_vars, dataset_vars, last_load, loader_error>>
volume_vars == <<vol_pc, volume, original_channel_nr, img, resized_data, div_by_zero, vol_error>>
vars ==
    <<constructor_vars, codec_vars, wrapper_vars, fit_vars, history_vars, loader_vars,
      volume_vars>>

\* ------------------------------------------------------------ array helpers

\* range(n)
Range(n) == 0 .. (n - 1)

\* len(a): the extent of the first axis
Len0(a) == Cardinality(DOMAIN a)

\* np.zeros / np.ones of a three-axis shape, filled with v
Full3(d0, d1, d2, v) == [i \in Range(d0) |-> [j \in Range(d1) |-> [k \in Range(d2) |-> v]]]

\* np.zeros of a two-axis shape, filled with v
Full2(d0, d1, v) == [i \in Range(d0) |-> [j \in Range(d1) |-> v]]

\* np.swapaxes(a, 0, 2) of a three-axis array
SwapAxes02(a) ==
    [i \in Range(Len0(a[0][0])) |-> [j \in Range(Len0(a[0])) |-> [k \in Range(Len0(a)) |->
        a[k][j][i]]]]

\* np.swapaxes(a, 0, 1) of a three-axis array
SwapAxes01(a) ==
    [i \in Range(Len0(a[0])) |-> [j \in Range(Len0(a)) |-> [k \in Range(Len0(a[0][0])) |->
        a[j][i][k]]]]

\* self.NUM_CLASSES = len(classes)
NUM_CLASSES == Len0(CLASSES)

\* ------------------------------------------------------- the constructor

\* The colours of c channels.
Colours(c) == [Range(c) -> ChannelValues]

\* The class tables of n entries (color, label), colours pairwise distinct.
ClassTables(c, n) ==
    { [i \in Range(n) |-> [color |-> t[i], label |-> i]] :
        t \in { u \in [Range(n) -> Colours(c)] :
                  \A i, j \in Range(n) : i # j => u[i] # u[j] } }

\* __init__(classes, size, channels): the fields the codec reads.
Construct(classes, size, channels) ==
    /\ IMG_SIZE = size
    /\ IMG_CHANNELS = channels
    /\ CLASSES = classes
    /\ ones = Full3(size, size, channels, 1)

\* ------------------------------------------------------- the class codec

\* a comparison that accepts a pixel as soon as one channel agrees (np.any)
MutCurrClassMask(m, color) ==
    [x \in Range(IMG_SIZE) |-> [y \in Range(IMG_SIZE) |->
        \E ch \in Range(IMG_CHANNELS) : m[x][y][ch] = color[ch] * ones[x][y][ch]]]

\* np.all(np.equal(mask, color * self.ones), axis=-1)
CurrClassMask(m, color) ==
    [x \in Range(IMG_SIZE) |-> [y \in Range(IMG_SIZE) |->
        \A ch \in Range(IMG_CHANNELS) : m[x][y][ch] = color[ch] * ones[x][y][ch]]]

\* for i, (color, _) in enumerate(self.CLASSES): classes[i] = curr_class_mask
RECURSIVE EncodeLoop(_, _, _)
EncodeLoop(classes, i, m) ==
    IF i = NUM_CLASSES THEN classes
    ELSE EncodeLoop([classes EXCEPT ![i] = CurrClassMask(m, CLASSES[i].color)], i + 1, m)

\* the swap a missing second swapaxes would leave: (y, x, n)
MutSwapToClassLast(classes) == SwapAxes02(classes)

\* Swap classes' axes from (n, x, y) to (x, y, n)
SwapToClassLast(classes) == SwapAxes01(SwapAxes02(classes))

\* an encoder that puts a pixel of no class into class 0
Mutmask_to_classes(m) ==
    LET l == SwapToClassLast(EncodeLoop(Full3(NUM_CLASSES, IMG_SIZE, IMG_SIZE, FALSE), 0, m))
    IN  [x \in DOMAIN l |-> [y \in DOMAIN l[x] |-> [n \in DOMAIN l[x][y] |->
            IF \A k \in DOMAIN l[x][y] : ~l[x][y][k] THEN n = 0 ELSE l[x][y][n]]]]

\* mask_to_classes(mask)
mask_to_classes(m) ==
    SwapToClassLast(EncodeLoop(Full3(NUM_CLASSES, IMG_SIZE, IMG_SIZE, FALSE), 0, m))

\* an arg-max that keeps the last of equal maxima
RECURSIVE MutArgMaxScan(_, _, _)
MutArgMaxScan(v, j, best) ==
    IF j = Len0(v) THEN best
    ELSE MutArgMaxScan(v, j + 1, IF v[j] >= v[best] THEN j ELSE best)

\* np.argmax over one pixel's class vector, scanning from index j with the
\* best index so far
RECURSIVE ArgMaxScan(_, _, _)
ArgMaxScan(v, j, best) ==
    IF j = Len0(v) THEN best
    ELSE ArgMaxScan(v, j + 1, IF v[j] > v[best] THEN j ELSE best)

\* np.argmax(v): the first index of the maximum
ArgMax(v) == ArgMaxScan(v, 1, 0)

\* for cn, (k, _) in enumerate(self.CLASSES): mask[idxs == cn] = k
RECURSIVE DecodeLoop(_, _, _)
DecodeLoop(m, idxs, cn) ==
    IF cn = NUM_CLASSES THEN m
    ELSE DecodeLoop(
            [x \in DOMAIN m |-> [y \in DOMAIN m[x] |->
                IF idxs[x][y] = cn
                THEN [ch \in Range(IMG_CHANNELS) |-> CLASSES[cn].color[ch] % 256]
                ELSE m[x][y]]],
            idxs, cn + 1)

\* __prediction_to_mask(prediction)
_prediction_to_mask(p) ==
    LET d0 == Len0(p)
        d1 == Len0(p[0])
        zeros == Full3(d0, d1, IMG_CHANNELS, 0)
        idxs == [x \in Range(d0) |-> [y \in Range(d1) |-> ArgMax(p[x][y])]]
    IN  DecodeLoop(zeros, idxs, 0)

\* numpy orders booleans as the numbers 0 and 1
AsNumbers(l) ==
    [x \in DOMAIN l |-> [y \in DOMAIN l[x] |-> [n \in DOMAIN l[x][y] |->
        IF l[x][y][n] THEN 1 ELSE 0]]]

\* The masks of the instance's shape over every colour.
Masks == [Range(IMG_SIZE) -> [Range(IMG_SIZE) -> Colours(IMG_CHANNELS)]]

\* The predictions of the instance's shape over the probability levels.
Predictions == [Range(IMG_SIZE) -> [Range(IMG_SIZE) -> [Range(NUM_CLASSES) -> 0 .. MaxProb]]]

\* ------------------------------------------------------ the model wrapper

\* A network: the epoch (counted over all fit_model calls) whose weights it
\* has, 0 for the weights create_model draws, -1 for no network; and the
\* validation IoU-loss measured for those weights, <<>> when none was.
Network(id, iou) == [id |-> id, iou |-> iou]

\* The instance has no attribute `model`; no file at MODEL_PATH.
NoNetwork == Network(-1, <<>>)

\* np.Inf, the callbacks' first `best`; a measured value v is <<v>>.
Inf == <<>>

\* np.less(current, best)
Less(current, best) == best = Inf \/ current < best[1]

\* min(best, current), over the measured values
MinLoss(best, current) == IF best = Inf \/ current < best[1] THEN <<current>> ELSE best

\* The validation losses an epoch reports.
Losses == 0 .. MaxLoss

\* EarlyStopping(patience=5)
Patience == 5

\* __init__: self.epochs_measured = 0; no network, no fit_model call.
WrapperIdle ==
    /\ model = NoNetwork
    /\ checkpoint = NoNetwork
    /\ epochs_measured = 0
    /\ pc = "idle"
    /\ epochs = 0
    /\ epoch = 0
    /\ es_wait = 0
    /\ es_best = Inf
    /\ ck_best = Inf
    /\ stop_training = FALSE
    /\ calls = 0
    /\ epochs_trained = 0
    /\ call_start = 0
    /\ all_min_iou = Inf
    /\ call_min_iou = Inf

\* __init__: no dataset attribute yet, no loader call.
LoaderFresh ==
    /\ train_images = <<>>
    /\ train_masks = <<>>
    /\ test_images = <<>>
    /\ test_masks = <<>>
    /\ last_load = "none"
    /\ loader_error = "none"

\* An instance with no directories to load.
LoaderIdle ==
    /\ IS_TEST_DATA_LABELED = FALSE
    /\ train_dir = <<>>
    /\ test_dir = <<>>
    /\ LoaderFresh

\* An array of any number of axes: its shape and its elements by index tuple.
Array(shape, data) == [shape |-> shape, data |-> data]

\* No array.
NoArray == Array(<<>>, <<>>)

\* No predict_volume call yet.
VolumeIdle ==
    /\ vol_pc = "idle"
    /\ volume = NoArray
    /\ original_channel_nr = 0
    /\ img = NoArray
    /\ resized_data = NoArray
    /\ div_by_zero = FALSE
    /\ vol_error = "none"

\* No call of the codec yet.
CodecIdle ==
    /\ op = "constructed"
    /\ mask = <<>>
    /\ labels = <<>>
    /\ prediction = <<>>
    /\ pred_mask = <<>>

InitEncode ==
    /\ \E c \in {1, 2} : \E n \in 1 .. MaxClasses : \E t \in ClassTables(c, n) :
          Construct(t, 2, c)
    /\ CodecIdle
    /\ WrapperIdle
    /\ LoaderIdle
    /\ VolumeIdle

\* labels = self.mask_to_classes(m)
MaskToClasses ==
    /\ op = "constructed"
    /\ \E m \in Masks :
          /\ mask' = m
          /\ labels' = mask_to_classes(m)
    /\ op' = "encoded"
    /\ UNCHANGED <<constructor_vars, prediction, pred_mask,
                   wrapper_vars, fit_vars, history_vars, loader_vars, volume_vars>>

\* self.__prediction_to_mask(labels)
DecodeLabels ==
    /\ op = "encoded"
    /\ prediction' = AsNumbers(labels)
    /\ pred_mask' = _prediction_to_mask(AsNumbers(labels))
    /\ op' = "decoded"
    /\ UNCHANGED <<constructor_vars, mask, labels,
                   wrapper_vars, fit_vars, history_vars, loader_vars, volume_vars>>

NextEncode == MaskToClasses \/ DecodeLabels

SpecEncode == InitEncode /\ [][NextEncode]_vars

\* ------------------------------------------------ decoding a prediction

\* One class table per length: decoding reads a table's colours by index only.
DecodeTables(c) ==
    { CHOOSE t \in ClassTables(c, n) : TRUE :
        n \in { k \in 1 .. MaxClasses : ClassTables(c, k) # {} } }

InitDecode ==
    /\ \E c \in {1, 2} : \E t \in DecodeTables(c) : Construct(t, 2, c)
    /\ CodecIdle
    /\ WrapperIdle
    /\ LoaderIdle
    /\ VolumeIdle

\* pred_mask = self.__prediction_to_mask(p)
PredictionToMask ==
    /\ op = "constructed"
    /\ \E p \in Predictions :
          /\ prediction' = p
          /\ pred_mask' = _prediction_to_mask(p)
    /\ op' = "predicted"
    /\ UNCHANGED <<constructor_vars, mask, labels,
                   wrapper_vars, fit_vars, history_vars, loader_vars, volume_vars>>

NextDecode == PredictionToMask

SpecDecode == InitDecode /\ [][NextDecode]_vars

\* ------------------------------------------------------ the dataset loader

\* What imread returns: an array of two axes (a grayscale file) or of three.
Gray2D(v) == [ndim |-> 2, data |-> Full2(IMG_SIZE, IMG_SIZE, v)]

\* A file of c channels in which every pixel has the colour `color`.
Colour3D(c, color) ==
    [ndim |-> 3, data |-> [x \in Range(IMG_SIZE) |-> [y \in Range(IMG_SIZE) |->
        [ch \in Range(c) |-> color[ch]]]]]

\* img.shape[2]
Channels(a) == Len0(a.data[0][0])

\* A file on disk: the number of axes imread finds in it and, where there are
\* three, the number of channels (0 where there are two).
File(ndim, channels) == [ndim |-> ndim, channels |-> channels]

\* The image files: grayscale, and of one channel fewer than, as many as and
\* one more than IMG_CHANNELS.
ImageFiles ==
    {File(2, 0)} \cup { File(3, c) : c \in (IMG_CHANNELS - 1) .. (IMG_CHANNELS + 1) }

\* The mask files: grayscale, of IMG_CHANNELS channels, and of one more.
MaskFiles == {File(2, 0), File(3, IMG_CHANNELS), File(3, IMG_CHANNELS + 1)}

\* A well-formed pair: IMG_CHANNELS channels in the image and in the mask.
GoodImage == File(3, IMG_CHANNELS)
GoodMask == File(3, IMG_CHANNELS)

\* imread(path + "images/" + id_): every pixel of an image file has the value
\* 10 (grayscale) or 20 + ch in channel ch.
imread_image(f) ==
    IF f.ndim = 2 THEN Gray2D(10)
    ELSE Colour3D(f.channels, [ch \in Range(f.channels) |-> 20 + ch])

\* imread(path + "masks/" + id_): every pixel of a mask file is 0 (grayscale)
\* or has the colour of class 0, and 255 in a channel beyond IMG_CHANNELS.
imread_mask(f) ==
    IF f.ndim = 2 THEN Gray2D(0)
    ELSE Colour3D(f.channels,
                  [ch \in Range(f.channels) |->
                      IF ch < IMG_CHANNELS THEN CLASSES[0].color[ch] ELSE 255])

\* images/<id> and masks/<id> of one id: the well-formed pair, and the pairs
\* in which the image or the mask is another file.
Files ==
    [img : ImageFiles, mask : {GoodMask}] \cup [img : {GoodImage}, mask : MaskFiles]

\* next(os.walk(path + "images/"))[2]: the ids of a directory, in its order
Directories == UNION { [1 .. n -> Files] : n \in 0 .. MaxFiles }

\* a[:, :, :IMG_CHANNELS]: an array of two axes has no third one to index
\* (IndexError); of three axes, the first IMG_CHANNELS channels are kept.
SliceChannels(a) ==
    IF a.ndim = 2 THEN [error |-> "IndexError", array |-> a]
    ELSE [error |-> "none",
          array |-> [ndim |-> 3,
                     data |-> [x \in DOMAIN a.data |-> [y \in DOMAIN a.data[x] |->
                         [ch \in Range(IF Channels(a) < IMG_CHANNELS THEN Channels(a)
                                        ELSE IMG_CHANNELS) |-> a.data[x][y][ch]]]]]]

\* len(a.shape) == 2 or a.shape[2] != self.IMG_CHANNELS
InvalidChannels(a) == a.ndim = 2 \/ Channels(a) # IMG_CHANNELS

\* raise BaseException("Invalid channel number in ... image " + id_)
InvalidChannelError == "Invalid channel number"

\* The loop over the ids from index n (0-based) on; `labeled` tells whether
\* the masks are read.  The result: the arrays as the loop leaves them and
\* the exception that ended it.
RECURSIVE LoadLoop(_, _, _, _, _)
LoadLoop(ids, n, images, masks, labeled) ==
    IF n = Len(ids) THEN [images |-> images, masks |-> masks, error |-> "none"]
    ELSE
        LET sliced == SliceChannels(imread_image(ids[n + 1].img))
            image == sliced.array
            msk == imread_mask(ids[n + 1].mask)
            images1 == [images EXCEPT ![n] = image.data]
        IN  IF sliced.error # "none"
            THEN [images |-> images, masks |-> masks, error |-> sliced.error]
            ELSE IF InvalidChannels(image)
            THEN [images |-> images, masks |-> masks, error |-> InvalidChannelError]
            ELSE IF ~labeled
            THEN LoadLoop(ids, n + 1, images1, masks, labeled)
            ELSE IF InvalidChannels(msk)
            THEN [images |-> images1, masks |-> masks, error |-> InvalidChannelError]
            ELSE LoadLoop(ids, n + 1, images1,
                          [masks EXCEPT ![n] = mask_to_classes(msk.data)], labeled)

\* np.zeros((len(ids), IMG_SIZE, IMG_SIZE, IMG_CHANNELS), dtype=np.uint8)
ZeroImages(n) == [i \in Range(n) |-> Full3(IMG_SIZE, IMG_SIZE, IMG_CHANNELS, 0)]

\* np.zeros((len(ids), IMG_SIZE, IMG_SIZE, NUM_CLASSES), dtype=np.bool)
ZeroMasks(n) == [i \in Range(n) |-> Full3(IMG_SIZE, IMG_SIZE, NUM_CLASSES, FALSE)]

\* The body of a loader: the instance's arrays are replaced by zero arrays of
\* the directory's length and filled file by file.
Load(ids, labeled) ==
    LoadLoop(ids, 0, ZeroImages(Len(ids)), ZeroMasks(Len(ids)), labeled)

\* load_training_images()
load_training_images ==
    /\ pc = "idle"
    /\ LET r == Load(train_dir, TRUE)
       IN  /\ train_images' = r.images
           /\ train_masks' = r.masks
           /\ loader_error' = r.error
    /\ last_load' = "train"
    /\ UNCHANGED <<disk_vars, test_images, test_masks>>
    /\ UNCHANGED <<constructor_vars, codec_vars, wrapper_vars, fit_vars, history_vars, volume_vars>>

\* load_testing_images()
load_testing_images ==
    /\ pc = "idle"
    /\ LET r == Load(test_dir, IS_TEST_DATA_LABELED)
       IN  /\ test_images' = r.images
           /\ test_masks' = r.masks
           /\ loader_error' = r.error
    /\ last_load' = "test"
    /\ UNCHANGED <<disk_vars, train_images, train_masks>>
    /\ UNCHANGED <<constructor_vars, codec_vars, wrapper_vars, fit_vars, history_vars, volume_vars>>

InitLoad ==
    /\ Construct(CHOOSE t \in ClassTables(2, 2) : TRUE, 2, 2)
    /\ CodecIdle
    /\ WrapperIdle
    /\ IS_TEST_DATA_LABELED \in BOOLEAN
    /\ train_dir \in Directories
    /\ test_dir \in Directories
    /\ LoaderFresh
    /\ VolumeIdle

NextLoad == load_training_images \/ load_testing_images

SpecLoad == InitLoad /\ [][NextLoad]_vars

\* ------------------------------------------------------------- training

\* create_model(): a new compiled network
create_model ==
    /\ pc = "idle"
    /\ vol_pc = "idle"
    /\ model' = Network(0, <<>>)
    /\ UNCHANGED <<checkpoint, epochs_measured, fit_vars, history_vars>>
    /\ UNCHANGED <<constructor_vars, codec_vars, loader_vars, volume_vars>>

\* save_model(): self.model.save(self.MODEL_PATH)
save_model ==
    /\ pc = "idle"
    /\ model # NoNetwork
    /\ checkpoint' = model
    /\ UNCHANGED <<model, epochs_measured, fit_vars, history_vars>>
    /\ UNCHANGED <<constructor_vars, codec_vars, loader_vars, volume_vars>>

\* load_model(): self.model = load_model(self.MODEL_PATH, ...)
load_model ==
    /\ pc = "idle"
    /\ checkpoint # NoNetwork
    /\ model' = checkpoint
    /\ UNCHANGED <<checkpoint, epochs_measured, fit_vars, history_vars>>
    /\ UNCHANGED <<constructor_vars, codec_vars, loader_vars, volume_vars>>

\* fit_model(epochs=e), up to the first epoch: the callbacks are constructed
\* (ModelCheckpoint.best = np.Inf), fit() clears stop_training and
\* EarlyStopping.on_train_begin sets wait = 0 and best = np.Inf.
fit_model_begin ==
    /\ pc = "idle"
    /\ model # NoNetwork
    /\ calls < MaxCalls
    /\ \E e \in 0 .. MaxEpochs : epochs' = e
    /\ pc' = "fitting"
    /\ epoch' = 0
    /\ es_wait' = 0
    /\ es_best' = Inf
    /\ ck_best' = Inf
    /\ stop_training' = FALSE
    /\ calls' = calls + 1
    /\ call_start' = epochs_trained
    /\ call_min_iou' = Inf
    /\ UNCHANGED <<wrapper_vars, epochs_trained, all_min_iou>>
    /\ UNCHANGED <<constructor_vars, codec_vars, loader_vars, volume_vars>>

\* a checkpointer that saves after every epoch (save_best_only=False)
MutCheckpointerSaves(current, best) == TRUE

\* ModelCheckpoint(save_best_only=True, monitor="val_iou_coef_loss"): the
\* epoch's network is saved when its loss is below the best of this callback
CheckpointerSaves(current, best) == Less(current, best)

\* EarlyStopping(patience=5).on_epoch_end: whether the epoch improved val_loss
EarlyStopperImproved(current, best) == Less(current, best)

\* One epoch of self.model.fit(...): the network is trained, its validation
\* losses are measured, and the callbacks run in the order
\* [earlystopper, checkpointer, tensorboard].
fit_model_epoch ==
    /\ pc = "fitting"
    /\ epoch < epochs
    /\ ~stop_training
    /\ \E val_loss \in Losses : \E val_iou_coef_loss \in Losses :
          LET trained == Network(epochs_trained + 1, <<val_iou_coef_loss>>)
              wait == IF EarlyStopperImproved(val_loss, es_best) THEN 0 ELSE es_wait + 1
          IN  /\ model' = trained
              /\ es_best' = IF EarlyStopperImproved(val_loss, es_best)
                             THEN <<val_loss>> ELSE es_best
              /\ es_wait' = wait
              /\ stop_training' = (wait >= Patience)
              /\ ck_best' = IF CheckpointerSaves(val_iou_coef_loss, ck_best)
                             THEN <<val_iou_coef_loss>> ELSE ck_best
              /\ checkpoint' = IF CheckpointerSaves(val_iou_coef_loss, ck_best)
                                THEN trained ELSE checkpoint
              /\ all_min_iou' = MinLoss(all_min_iou, val_iou_coef_loss)
              /\ call_min_iou' = MinLoss(call_min_iou, val_iou_coef_loss)
    /\ epoch' = epoch + 1
    /\ epochs_trained' = epochs_trained + 1
    /\ UNCHANGED <<epochs_measured, pc, epochs, calls, call_start>>
    /\ UNCHANGED <<constructor_vars, codec_vars, loader_vars, volume_vars>>

\* self.epochs_measured += epochs
Measured(measured, requested) == measured + requested

\* fit() returns, after the last epoch or once stop_training is set, and
\* fit_model adds to epochs_measured.
fit_model_return ==
    /\ pc = "fitting"
    /\ epoch = epochs \/ stop_training
    /\ epochs_measured' = Measured(epochs_measured, epochs)
    /\ pc' = "idle"
    /\ UNCHANGED <<model, checkpoint, epochs, epoch, es_wait, es_best, ck_best, stop_training>>
    /\ UNCHANGED <<history_vars, constructor_vars, codec_vars, loader_vars, volume_vars>>

InitFit ==
    /\ Construct(CHOOSE t \in ClassTables(2, 2) : TRUE, 2, 2)
    /\ CodecIdle
    /\ WrapperIdle
    /\ LoaderIdle
    /\ VolumeIdle

NextFit ==
    \/ create_model
    \/ save_model
    \/ load_model
    \/ fit_model_begin
    \/ fit_model_epoch
    \/ fit_model_return

SpecFit == InitFit /\ [][NextFit]_vars

\* ---------------------------------------------------- predicting a volume

\* The index tuples of an array of the given shape.
Indices(shape) ==
    LET extent == CHOOSE e \in { shape[k] : k \in DOMAIN shape } :
                      \A k \in DOMAIN shape : shape[k] <= e
    IN  { idx \in [DOMAIN shape -> Range(extent)] :
            \A k \in DOMAIN shape : idx[k] < shape[k] }

\* A floating-point value n / d as the pair <<n, d>>: d = 0 is what a division
\* by zero leaves, infinity for n > 0 and NaN for n = 0.  Rounding is not
\* modelled: the voxel values are such that the quotients are exact.
Quotient(n, d) == <<n, d>>

\* a finite value that is zero
IsZero(q) == q[1] = 0 /\ q[2] # 0

\* v * q for an integer v: 0 * inf is NaN
Times(v, q) == Quotient(v * q[1], q[2])

\* img.max()
ArrayMax(a) ==
    CHOOSE m \in { a.data[idx] : idx \in DOMAIN a.data } :
        \A idx \in DOMAIN a.data : a.data[idx] <= m

\* img * (255 / img.max()): numpy divides by a zero maximum with a warning
\* and the quotient inf
Normalise(a) ==
    Array(a.shape, [idx \in DOMAIN a.data |-> Times(a.data[idx], Quotient(255, ArrayMax(a)))])

\* Order-1 interpolation along axis k to the extent out, mode 'edge': output
\* index o reads the input at (o + 0.5) * in / out - 0.5, clamped to the
\* input's extent.
ResizeAxis(a, k, out) ==
    LET in == a.shape[k]
        shape == [a.shape EXCEPT ![k] = out]
        Coord(o) ==
            LET c == (2 * o + 1) * in - out
                last == (in - 1) * 2 * out
            IN  IF c < 0 THEN 0 ELSE IF c > last THEN last ELSE c
        Lo(o) == Coord(o) \div (2 * out)
        Hi(o) == IF Lo(o) + 1 > in - 1 THEN in - 1 ELSE Lo(o) + 1
        Frac(o) == Coord(o) % (2 * out)
        Value(idx) ==
            LET x == a.data[[idx EXCEPT ![k] = Lo(idx[k])]]
                y == a.data[[idx EXCEPT ![k] = Hi(idx[k])]]
                f == Frac(idx[k])
            IN  Quotient((2 * out - f) * x[1] * y[2] + f * y[1] * x[2],
                         2 * out * x[2] * y[2])
    IN  Array(shape, [idx \in Indices(shape) |-> Value(idx)])

\* resize(img, (IMG_SIZE, IMG_SIZE, IMG_SIZE), mode='edge', preserve_range=True,
\* order=1, anti_aliasing=False): the first three axes are resized, a fourth
\* one is kept
Resize(a) ==
    ResizeAxis(ResizeAxis(ResizeAxis(a, 1, IMG_SIZE), 2, IMG_SIZE), 3, IMG_SIZE)

\* np.stack(3 * (a,), axis=-1)
Stack(a, c) ==
    Array(a.shape \o <<c>>,
          [idx \in Indices(a.shape \o <<c>>) |-> a.data[SubSeq(idx, 1, Len(a.shape))]])

\* gray2rgb(a).  The scikit-image releases that take rescale(multichannel=)
\* pass an array of three non-unit axes whose third extent is 3 or 4 through
\* as RGB already, stack the other arrays of one to three non-unit axes and
\* raise ValueError for the rest; later releases stack every array.
Gray2Rgb(a) ==
    LET dims == Cardinality({ k \in DOMAIN a.shape : a.shape[k] # 1 })
        early ==
            IF dims = 3 /\ a.shape[3] \in {3, 4} THEN [error |-> "none", array |-> a]
            ELSE IF dims \in {1, 2, 3} THEN [error |-> "none", array |-> Stack(a, 3)]
            ELSE [error |-> "ValueError", array |-> a]
        later == [error |-> "none", array |-> Stack(a, 3)]
    IN  {early, later}

\* What a cast of NaN or infinity to uint8 may give: C leaves it undefined.
UndefinedCasts == {0, 255}

\* a.astype(np.uint8), with u for the elements whose cast is undefined
AsUint8(a, u) ==
    Array(a.shape,
          [idx \in DOMAIN a.data |->
              IF a.data[idx][2] = 0 THEN u
              ELSE (a.data[idx][1] \div a.data[idx][2]) % 256])

\* The network's input layer: Input((IMG_SIZE, IMG_SIZE, IMG_CHANNELS))
NetworkAccepts(a) ==
    /\ Len(a.shape) = 4
    /\ a.shape[2] = IMG_SIZE
    /\ a.shape[3] = IMG_SIZE
    /\ a.shape[4] = IMG_CHANNELS

\* The shapes (D, H, W) of the input volumes.
VolumeShapes == {<<1, 1, 1>>, <<2, 2, 2>>, <<1, 2, 3>>}

\* The input volumes: grayscale of three axes, and the same with a fourth
\* axis of 1 or 3 equal channels.
GrayVolumes ==
    UNION { { Array(shape, f) : f \in [Indices(shape) -> 0 .. MaxVoxel] } :
              shape \in VolumeShapes }

InputVolumes == GrayVolumes \cup { Stack(v, c) : v \in GrayVolumes, c \in {1, 3} }

\* predict_volume(v), lines 256-260: the locals and the intensity scaling
predict_volume_normalise ==
    /\ pc = "idle"
    /\ vol_pc = "idle"
    /\ \E v \in InputVolumes :
          /\ volume' = v
          /\ original_channel_nr' = IF Len(v.shape) = 4 THEN v.shape[4] ELSE 0
          /\ div_by_zero' = (ArrayMax(v) = 0)
          /\ img' = Normalise(v)
    /\ vol_pc' = "normalised"
    /\ UNCHANGED <<resized_data, vol_error>>
    /\ UNCHANGED <<constructor_vars, codec_vars, wrapper_vars, fit_vars, history_vars,
                   loader_vars>>

\* lines 262-263: resized_data = resize(img, ...)
predict_volume_resize ==
    /\ vol_pc = "normalised"
    /\ resized_data' = Resize(img)
    /\ vol_pc' = "resized"
    /\ UNCHANGED <<volume, original_channel_nr, img, div_by_zero, vol_error>>
    /\ UNCHANGED <<constructor_vars, codec_vars, wrapper_vars, fit_vars, history_vars,
                   loader_vars>>

\* lines 264-265: if original_channel_nr != self.IMG_CHANNELS: gray2rgb
predict_volume_convert ==
    /\ vol_pc = "resized"
    /\ IF original_channel_nr # IMG_CHANNELS
       THEN \E r \in Gray2Rgb(resized_data) :
               /\ resized_data' = r.array
               /\ vol_error' = r.error
               /\ vol_pc' = IF r.error = "none" THEN "converted" ELSE "raised"
       ELSE /\ vol_pc' = "converted"
            /\ UNCHANGED <<resized_data, vol_error>>
    /\ UNCHANGED <<volume, original_channel_nr, img, div_by_zero>>
    /\ UNCHANGED <<constructor_vars, codec_vars, wrapper_vars, fit_vars, history_vars,
                   loader_vars>>

\* line 266: resized_data = resized_data.astype(np.uint8)
predict_volume_cast ==
    /\ vol_pc = "converted"
    /\ \E u \in UndefinedCasts : resized_data' = AsUint8(resized_data, u)
    /\ vol_pc' = "cast"
    /\ UNCHANGED <<volume, original_channel_nr, img, div_by_zero, vol_error>>
    /\ UNCHANGED <<constructor_vars, codec_vars, wrapper_vars, fit_vars, history_vars,
                   loader_vars>>

\* line 268: preds = self.model.predict(resized_data, verbose=1)
predict_volume_predict ==
    /\ vol_pc = "cast"
    /\ vol_error' = IF model = NoNetwork THEN "AttributeError"
                    ELSE IF ~NetworkAccepts(resized_data) THEN "ValueError"
                    ELSE "none"
    /\ vol_pc' = IF model # NoNetwork /\ NetworkAccepts(resized_data)
                 THEN "predicted" ELSE "raised"
    /\ UNCHANGED <<volume, original_channel_nr, img, resized_data, div_by_zero>>
    /\ UNCHANGED <<constructor_vars, codec_vars, wrapper_vars, fit_vars, history_vars,
                   loader_vars>>

InitVolume ==
    /\ \E c \in {1, 3} : Construct(CHOOSE t \in ClassTables(c, 2) : TRUE, 2, c)
    /\ CodecIdle
    /\ WrapperIdle
    /\ LoaderIdle
    /\ VolumeIdle

NextVolume ==
    \/ create_model
    \/ predict_volume_normalise
    \/ predict_volume_resize
    \/ predict_volume_convert
    \/ predict_volume_cast
    \/ predict_volume_predict

SpecVolume == InitVolume /\ [][NextVolume]_vars

\* ------------------------------------------------------ the codec's claims

\* Every pixel of m carries the colour of some class.
ValidMask(m) ==
    \A x \in DOMAIN m : \A y \in DOMAIN m[x] :
        \E i \in Range(NUM_CLASSES) : m[x][y] = CLASSES[i].color

\* The classes whose colour pixel (x, y) of the mask has.
ClassesOf(x, y) == { i \in Range(NUM_CLASSES) : mask[x][y] = CLASSES[i].color }

\* C1: decoding the encoding of a mask whose every pixel has a class colour
\* gives the mask back, pixel for pixel.
C1_RoundTrip ==
    (op = "decoded" /\ ValidMask(mask)) => pred_mask = mask

\* C1 happens: a valid mask of two colours that differs from its transpose was
\* encoded and decoded.
C1_Witness ==
    /\ op = "decoded"
    /\ ValidMask(mask)
    /\ mask[0][1] # mask[1][0]
    /\ pred_mask = mask

\* C2: the encoding of a valid mask has shape (S, S, NUM_CLASSES), class axis
\* last in table order, and at every pixel exactly one plane is true: the plane
\* of the class whose colour the pixel has.
C2_OneHot ==
    (op \in {"encoded", "decoded"} /\ ValidMask(mask)) =>
        /\ DOMAIN labels = Range(IMG_SIZE)
        /\ \A x \in Range(IMG_SIZE) :
              /\ DOMAIN labels[x] = Range(IMG_SIZE)
              /\ \A y \in Range(IMG_SIZE) :
                    /\ DOMAIN labels[x][y] = Range(NUM_CLASSES)
                    /\ Cardinality({ i \in Range(NUM_CLASSES) : labels[x][y][i] }) = 1
                    /\ \A i \in Range(NUM_CLASSES) :
                          labels[x][y][i] <=> (mask[x][y] = CLASSES[i].color)

\* C2 happens: a valid mask in which two classes occur, at transposed places,
\* was encoded.
C2_Witness ==
    /\ op = "encoded"
    /\ ValidMask(mask)
    /\ NUM_CLASSES = 2
    /\ IMG_CHANNELS = 2
    /\ labels[0][1][0] /\ labels[1][0][1]

\* C4: a pixel whose colour is no class colour is false in every plane, and the
\* other pixels of the same mask are encoded as usual; the call returns.
C4_Unmatched ==
    (op = "encoded") =>
        \A x \in Range(IMG_SIZE) : \A y \in Range(IMG_SIZE) :
            /\ (ClassesOf(x, y) = {}) =>
                  \A i \in Range(NUM_CLASSES) : ~labels[x][y][i]
            /\ (ClassesOf(x, y) # {}) =>
                  \A i \in Range(NUM_CLASSES) : labels[x][y][i] <=> (i \in ClassesOf(x, y))

\* C4 happens: a mask with a pixel of no class beside a pixel of a class was
\* encoded.
C4_Witness ==
    /\ op = "encoded"
    /\ ClassesOf(0, 0) = {}
    /\ ClassesOf(0, 1) # {}
    /\ \A i \in Range(NUM_CLASSES) : ~labels[0][0][i]
    /\ \E i \in Range(NUM_CLASSES) : labels[0][1][i]

\* The classes of maximal probability at pixel (x, y) of the prediction.
MaxClassesAt(x, y) ==
    { i \in Range(NUM_CLASSES) :
        \A j \in Range(NUM_CLASSES) : prediction[x][y][j] <= prediction[x][y][i] }

\* The least number of a non-empty set of numbers.
Least(s) == CHOOSE i \in s : \A j \in s : i <= j

\* C3: every output pixel of the decoder is the colour of the lowest class
\* index among those of maximal probability; a pixel whose probabilities are
\* all equal gets the colour of class 0; every pixel gets a class colour.
C3_ArgMaxLowest ==
    (op = "predicted") =>
        /\ DOMAIN pred_mask = Range(IMG_SIZE)
        /\ \A x \in Range(IMG_SIZE) : \A y \in Range(IMG_SIZE) :
              /\ pred_mask[x][y] = CLASSES[Least(MaxClassesAt(x, y))].color
              /\ (MaxClassesAt(x, y) = Range(NUM_CLASSES)) =>
                    pred_mask[x][y] = CLASSES[0].color

\* C3 happens: a prediction with an all-zero pixel, a pixel where all classes
\* tie above zero and a pixel whose maximum is not class 0 was decoded.
C3_Witness ==
    /\ op = "predicted"
    /\ NUM_CLASSES = MaxClasses
    /\ \A i \in Range(NUM_CLASSES) : prediction[0][0][i] = 0
    /\ \A i \in Range(NUM_CLASSES) : prediction[0][1][i] = MaxProb
    /\ prediction[1][0][0] < prediction[1][0][1]
    /\ pred_mask[0][0] = CLASSES[0].color
    /\ pred_mask[0][1] = CLASSES[0].color
    /\ pred_mask[1][0] = CLASSES[1].color

\* ---------------------------------------------------- the wrapper's claims

\* C8: between fit_model calls, epochs_measured is the number of epochs the
\* calls so far actually trained.
C8_EpochsActuallyTrained ==
    (pc = "idle") => epochs_measured = epochs_trained

\* C9 as stated: once an epoch has completed, the file at MODEL_PATH holds a
\* network whose validation IoU-loss is the lowest of all epochs trained so
\* far (stated for an instance whose network is a trained one, which leaves
\* out the saving of a network create_model has just drawn).
C9_BestOfAllEpochs ==
    (epochs_trained >= 1 /\ model.id >= 1) =>
        /\ checkpoint # NoNetwork
        /\ checkpoint.iou = all_min_iou

\* C9 amended: within a fit_model call that has completed an epoch, the file
\* at MODEL_PATH holds the network of an epoch of that call, and its
\* validation IoU-loss is the lowest among that call's epochs so far.
C9_BestOfCall ==
    (pc = "fitting" /\ epoch >= 1) =>
        /\ checkpoint.id \in (call_start + 1) .. epochs_trained
        /\ checkpoint.iou = call_min_iou

\* C9 amended happens: in a second fit_model call an epoch that did not
\* improve on the call's best was trained, and the checkpoint kept the
\* network of the call's best epoch, which is worse than an epoch of the
\* first call.
C9_Witness ==
    /\ pc = "fitting"
    /\ calls = 2
    /\ epoch >= 2
    /\ checkpoint.iou = call_min_iou
    /\ checkpoint.id # model.id
    /\ all_min_iou # call_min_iou

\* ----------------------------------------------------- the loader's claims

\* A file of the directory has an image of two axes or of another channel
\* count than IMG_CHANNELS or, where masks are read, such a mask.
ChannelMismatch(ids, labeled) ==
    \E n \in 1 .. Len(ids) :
        \/ ids[n].img.ndim = 2
        \/ ids[n].img.channels # IMG_CHANNELS
        \/ labeled /\ (ids[n].mask.ndim = 2 \/ ids[n].mask.channels # IMG_CHANNELS)

\* C5: a loader call on a directory with a channel mismatch fails with the
\* invalid-channel error and with no other fault.
C5_InvalidChannelReported ==
    /\ (last_load = "train" /\ ChannelMismatch(train_dir, TRUE)) =>
          loader_error = InvalidChannelError
    /\ (last_load = "test" /\ ChannelMismatch(test_dir, IS_TEST_DATA_LABELED)) =>
          loader_error = InvalidChannelError

\* C6: a loader call that fails with the loader's error leaves the dataset arrays of the instance as
\* they were before the call.
C6_NoPartialDataset ==
    [][(loader_error' = InvalidChannelError) => (dataset_vars' = dataset_vars)]_vars

\* ------------------------------------------ the claims on predict_volume

\* C7: for a volume whose voxels are all zero the normalisation divides by no
\* zero, and the volume handed on to resizing is all zero.
C7_DegenerateVolume ==
    (vol_pc # "idle" /\ \A idx \in DOMAIN volume.data : volume.data[idx] = 0) =>
        /\ ~div_by_zero
        /\ \A idx \in DOMAIN img.data : IsZero(img.data[idx])

\* C10: the array handed to the network's predict has the shape
\* (IMG_SIZE, IMG_SIZE, IMG_SIZE, IMG_CHANNELS), for every input volume (here:
\* of a non-zero maximum) and every IMG_CHANNELS.
C10_HandedShape ==
    (vol_pc = "cast" /\ ~div_by_zero) =>
        resized_data.shape = <<IMG_SIZE, IMG_SIZE, IMG_SIZE, IMG_CHANNELS>>

====
